---- MODULE Spec2Model ----
\* Model of backup_auditor (src/src/main.rs): deep_check walks the source tree,
\* opens every walked path under both roots, classifies the pair (cmp_files)
\* and appends diagnostic records to one output file shared through a mutex.
EXTENDS Integers, Sequences, FiniteSets, TLC

\* ---------------------------------------------------------------- bounds

\* Size of the rayon pool that runs the par_bridge closure (num_cpus::get()).
NumWorkers == 2
\* Number of write(2) calls write_all needs to append one record.
WriteParts == 2
\* A regular file is empty or holds one byte of 1..MaxByte.
MaxByte == 1

\* ---------------------------------------------------------------- file system

\* Paths are sequences of components.  args.source_dir and args.target_dir
\* (trailing "/" already stripped, main.rs:61-68).
source_dir == <<"s">>
target_dir == <<"t">>

\* Names of the entries a root directory may hold that the walk lists.
Names == <<"a", "b">>

\* Names starting with a dot, which the walk skips (jwalk's skip_hidden is on
\* unless switched off, and the program leaves it on).
HiddenNames == <<".h">>

\* A directory listing: every name, the order in which the walk meets them.
ListedNames == Names \o HiddenNames
NameSet == {ListedNames[i] : i \in 1..Len(ListedNames)}

is_hidden(n) == \E i \in 1..Len(HiddenNames) : HiddenNames[i] = n

\* Text a symbolic link may carry: the name of an entry of its own directory.
LinkTexts == {"a", "b"}

\* Names that may be symbolic links in the file systems explored.
LinkNames == {"a"}

\* Names under which a regular file may hold bytes in the file systems
\* explored; any other listed name is absent or an empty regular file.
VariedNames == {"a"}

\* The environment of a run, fixed while it lasts:
\*   pool          threads of the rayon pool that runs the for_each closure
\*   cpus          num_cpus::get(), which sizes the spinner vector
\*   create_fails  whether File::create(args.output_file) fails
\*   output_file   args.output_file
\*   read_fails    regular files whose read fails after a successful open
\*   denied        directories that can be neither listed nor opened (EACCES)
\*   list_fails    directories whose listing fails part-way (readdir error)
\*   order         the order in which a directory listing returns the names
\*                 (that of readdir; the walk does not sort)
\*   write_fails   whether every write to the output file fails
\*   columns       width of the terminal on stdout, 0 when stdout is none
\*   overflow_checks  whether the build panics on integer overflow (debug) or
\*                 wraps (release)
VARIABLE env

\* The file system: absolute path -> entry.
VARIABLE fs

\* args.output_file when it lies outside both trees.
OutsidePath == <<"o">>

\* A default rayon pool (one thread per CPU), no I/O fault, output outside.
BenignEnv ==
    [pool |-> NumWorkers, cpus |-> NumWorkers, create_fails |-> FALSE,
     output_file |-> OutsidePath, read_fails |-> {}, denied |-> {}, list_fails |-> {},
     write_fails |-> FALSE, columns |-> 0, overflow_checks |-> FALSE,
     order |-> ListedNames]

\* The orders a directory listing may have.  Hidden names are skipped by the
\* walk wherever they stand, so they are kept last.
ListingOrders ==
    {[i \in 1..Len(ListedNames) |-> IF i <= Len(Names) THEN Names[q[i]] ELSE ListedNames[i]] :
        q \in {r \in [1..Len(Names) -> 1..Len(Names)] :
                  \A i, j \in 1..Len(Names) : r[i] = r[j] => i = j}}

\* The environments of E under every listing order.
InOrder(E) == {[e EXCEPT !.order = o] : e \in E, o \in ListingOrders}

Workers == 1..env.pool

Contents == {<<>>} \cup {<<b>> : b \in 1..MaxByte}

Absent == [kind |-> "absent", content |-> <<>>, target |-> ""]
Dir == [kind |-> "dir", content |-> <<>>, target |-> ""]
RegFile(c) == [kind |-> "file", content |-> c, target |-> ""]
Symlink(t) == [kind |-> "symlink", content |-> <<>>, target |-> t]
Fifo == [kind |-> "fifo", content |-> <<>>, target |-> ""]

Entries ==
    {Absent, Dir} \cup {RegFile(c) : c \in Contents} \cup {Symlink(t) : t \in LinkTexts}

ChildPaths(root) == {root \o <<n>> : n \in NameSet}
AllPaths == {source_dir, target_dir} \cup ChildPaths(source_dir) \cup ChildPaths(target_dir)

\* The paths of the two trees under the names the walk lists.
VisiblePaths == {root \o <<Names[i]>> : root \in {source_dir, target_dir}, i \in 1..Len(Names)}

\* The file systems a run may start on: both roots are directories; a name of
\* VariedNames is absent, a directory, a regular file or (for the names of
\* LinkNames) a symlink to itself or to its sibling; any other listed name is
\* absent or an empty file; no hidden entry exists.
FileSystems ==
    {[p \in AllPaths |-> IF p \in {source_dir, target_dir} THEN Dir
                         ELSE IF p \in VisiblePaths THEN g[p]
                         ELSE Absent] :
        g \in {h \in [VisiblePaths -> Entries] :
                  \A p \in VisiblePaths :
                      /\ h[p].kind = "symlink" => p[Len(p)] \in LinkNames
                      /\ p[Len(p)] \notin VariedNames => h[p] \in {Absent, RegFile(<<>>)}}}

Parent(p) == SubSeq(p, 1, Len(p) - 1)

\* File::open(path): resolves the path, following symbolic links (open(2)
\* without O_NOFOLLOW).  A handle refers to what the path resolves to, so the
\* metadata read through it (fstat) is never that of a symlink.  Opening a
\* directory of env.denied fails with EACCES.
RECURSIVE OpenAt(_, _, _)
OpenAt(f, p, hops) ==
    IF p \notin DOMAIN f \/ f[p].kind = "absent"
    THEN [ok |-> FALSE, kind |-> "none", path |-> <<>>, err |-> "NotFound"]
    ELSE IF f[p].kind = "symlink"
    THEN IF hops = 0
         THEN [ok |-> FALSE, kind |-> "none", path |-> <<>>, err |-> "FilesystemLoop"]
         ELSE OpenAt(f, Parent(p) \o <<f[p].target>>, hops - 1)
    ELSE IF p \in env.denied
    THEN [ok |-> FALSE, kind |-> "none", path |-> <<>>, err |-> "PermissionDenied"]
    ELSE [ok |-> TRUE, kind |-> f[p].kind, path |-> p, err |-> ""]

FileOpen(f, p) == OpenAt(f, p, Len(Names) + 1)

NoHandle == [ok |-> FALSE, kind |-> "none", path |-> <<>>, err |-> "closed"]

\* File::open of a FIFO that no process has open for writing does not return.
Blocks(h) == h.ok /\ h.kind = "fifo"

\* The bytes io::copy reads through a handle: the file's content at the time
\* of the read.
ReadAll(h) == fs[h.path].content

\* Whether reading through the handle fails before the end of the file.
ReadFails(h) == h.path \in env.read_fails

\* WalkDir::new(root) with follow_links off and skip_hidden on: the root, then
\* every entry that exists under it (lstat) and whose name does not start
\* with a dot, symlinks reported as themselves, in the order of the listing
\* (env.order).
RECURSIVE WalkFrom(_, _, _)
WalkFrom(f, root, i) ==
    IF i > Len(env.order) THEN <<>>
    ELSE (IF f[root \o <<env.order[i]>>].kind = "absent" \/ is_hidden(env.order[i])
          THEN <<>>
          ELSE <<root \o <<env.order[i]>>>>)
         \o WalkFrom(f, root, i + 1)

\* The paths of the entries the walk yields as Ok.
WalkDir(f, root) == <<root>> \o WalkFrom(f, root, 1)

\* The items of WalkDir::new(root), each a Result.  Every entry is yielded as
\* Ok, and the walk then lists it when it is a directory: a directory that
\* cannot be opened for listing (env.denied) keeps the error in its own entry
\* (read_children_error) and yields nothing more, and a listing that fails
\* part-way (env.list_fails) yields an Err item in place of the next child.
OkEntry(p) == [ok |-> TRUE, path |-> p]
ErrEntry(p) == [ok |-> FALSE, path |-> p]

RECURSIVE ResultsOf(_, _, _)
ResultsOf(f, paths, i) ==
    IF i > Len(paths) THEN <<>>
    ELSE <<OkEntry(paths[i])>>
         \o (IF f[paths[i]].kind = "dir" /\ paths[i] \in env.list_fails
                 /\ paths[i] \notin env.denied
              THEN <<ErrEntry(paths[i])>>
              ELSE <<>>)
         \o ResultsOf(f, paths, i + 1)

WalkResults(f, root) == ResultsOf(f, WalkDir(f, root), 1)

\* src_path.strip_prefix(&args.source_dir).unwrap()
strip_prefix(p, pre) == SubSeq(p, Len(pre) + 1, Len(p))

\* format!("{}{}", args.target_dir, stripped_path)
tgt_path_of(src_path) == target_dir \o strip_prefix(src_path, source_dir)

\* Sha256 over the bytes io::copy streams into the hasher.  The digest is
\* modelled by a positional fold of the bytes that is collision-free on
\* Contents, as SHA-256 is taken to be.
RECURSIVE Sha256From(_, _, _)
Sha256From(h, bytes, i) ==
    IF i > Len(bytes) THEN h
    ELSE Sha256From(h * (MaxByte + 2) + bytes[i] + 1, bytes, i + 1)

Sha256(bytes) == Sha256From(1, bytes, 1)

\* ---------------------------------------------------------------- records

NoRecord == [cat |-> "none", src |-> <<>>, tgt |-> <<>>, src_hash |-> 0, tgt_hash |-> 0,
             src_reason |-> "", tgt_reason |-> ""]

MissingInTarget(sp, tp, e) ==
    [cat |-> "Found missing file in target", src |-> sp, tgt |-> tp,
     src_hash |-> 0, tgt_hash |-> 0, src_reason |-> "", tgt_reason |-> e]

MissingInSource(sp, tp, e) ==
    [cat |-> "Found missing file in source", src |-> sp, tgt |-> tp,
     src_hash |-> 0, tgt_hash |-> 0, src_reason |-> e, tgt_reason |-> ""]

MissingInBoth(sp, tp, es, et) ==
    [cat |-> "Found missing file in source and target", src |-> sp, tgt |-> tp,
     src_hash |-> 0, tgt_hash |-> 0, src_reason |-> es, tgt_reason |-> et]

HashMismatch(sp, sh, tp, th) ==
    [cat |-> "Found mismatched sha256 hashes", src |-> sp, tgt |-> tp,
     src_hash |-> sh, tgt_hash |-> th, src_reason |-> "", tgt_reason |-> ""]

TypeMismatch(sp, tp) ==
    [cat |-> "Found mismatched file types", src |-> sp, tgt |-> tp,
     src_hash |-> 0, tgt_hash |-> 0, src_reason |-> "", tgt_reason |-> ""]

\* Metadata read through an open handle.
is_dir(h) == h.kind = "dir"
is_symlink(h) == h.kind = "symlink"
is_file(h) == h.kind = "file"

\* Whether cmp_files takes the branch that digests both files.
Digests(src, tgt) ==
    /\ ~(is_dir(src) /\ is_dir(tgt))
    /\ ~(is_symlink(src) /\ is_symlink(tgt))
    /\ is_file(src) /\ is_file(tgt)

\* cmp_files: the record it hands to the output file, NoRecord when it returns
\* without writing.
cmp_files(sp, src, tp, tgt) ==
    IF is_dir(src) /\ is_dir(tgt) THEN NoRecord
    ELSE IF is_symlink(src) /\ is_symlink(tgt) THEN NoRecord
    ELSE IF is_file(src) /\ is_file(tgt)
    THEN IF Sha256(ReadAll(src)) # Sha256(ReadAll(tgt))
         THEN HashMismatch(sp, Sha256(ReadAll(src)), tp, Sha256(ReadAll(tgt)))
         ELSE NoRecord
    ELSE TypeMismatch(sp, tp)

\* The match with every failure reported as a missing target.
OpenFailure_TargetOnly(sp, src, tp, tgt) == MissingInTarget(sp, tp, tgt.err)

\* The match on (src_r, tgt_r) in the for_each closure, for the arms that
\* write without calling cmp_files.
OpenFailure(sp, src, tp, tgt) ==
    IF src.ok /\ ~tgt.ok THEN MissingInTarget(sp, tp, tgt.err)
    ELSE IF ~src.ok /\ tgt.ok THEN MissingInSource(sp, tp, src.err)
    ELSE MissingInBoth(sp, tp, src.err, tgt.err)

\* ---------------------------------------------------------------- state

VARIABLES
    pcMain,       \* where the main thread is in deep_check
    files_count,  \* entries counted by the first walk
    pcWalk,       \* where walk_thread is
    iter,         \* items the comparison walk has not yet handed out
    pc,           \* per worker: where it is in the for_each closure
    src_path,     \* per worker: the path of the entry it holds
    src_r,        \* per worker: File::open(&src_path)
    tgt_r,        \* per worker: File::open(&tgt_path)
    pending,      \* per worker: the record it is about to write
    parts,        \* per worker: parts of the record written so far
    mutex,        \* holder of the output file's lock, 0 when free
    poisoned,     \* whether a thread panicked while holding the lock
    output,       \* the output file: the parts appended, in order
    pbar,         \* pbar.inc(1) calls so far
    handles,      \* open File values of the process: <<worker, path>>
    bar_count,    \* BAR_COUNT
    bar_id,       \* per worker: LOCAL_BAR_ID, -1 until first used
    delivered,    \* history: times each walked path was handed to a worker
    hashed        \* history: paths for which digests were computed

vars == <<env, fs, pcMain, files_count, pcWalk, iter, pc, src_path, src_r, tgt_r,
          pending, parts, mutex, poisoned, output, pbar, handles, bar_count, bar_id,
          delivered, hashed>>

workerVars == <<pc, src_path, src_r, tgt_r, pending, parts>>

barVars == <<bar_count, bar_id>>

WalkedPaths == {source_dir} \cup ChildPaths(source_dir)

InitRun ==
    /\ pcMain = "create"
    /\ files_count = 0
    /\ pcWalk = "unstarted"
    /\ iter = <<>>
    /\ pc = [w \in Workers |-> "idle"]
    /\ src_path = [w \in Workers |-> <<>>]
    /\ src_r = [w \in Workers |-> NoHandle]
    /\ tgt_r = [w \in Workers |-> NoHandle]
    /\ pending = [w \in Workers |-> NoRecord]
    /\ parts = [w \in Workers |-> 0]
    /\ mutex = 0
    /\ poisoned = FALSE
    /\ output = <<>>
    /\ pbar = 0
    /\ handles = {}
    /\ bar_count = 0
    /\ bar_id = [w \in Workers |-> -1]
    /\ delivered = [p \in WalkedPaths |-> 0]
    /\ hashed = {}

Init ==
    /\ env \in InOrder({BenignEnv})
    /\ fs \in FileSystems
    /\ InitRun

\* ---------------------------------------------------------------- main thread

\* Whether File::create(args.output_file) returns Err: the environment refuses
\* it, or the path names a directory.
CreateFails_Ignored == FALSE

CreateFails ==
    \/ env.create_fails
    \/ env.output_file \in DOMAIN fs /\ fs[env.output_file].kind = "dir"

\* File::create opens with O_TRUNC: what the file held is discarded.
Truncated_Kept(out) == out

Truncated(out) == <<>>

\* The file system after File::create: a path inside a tree becomes an empty
\* regular file (created, or truncated).
Created(f) ==
    IF env.output_file \in DOMAIN f
    THEN [f EXCEPT ![env.output_file] = RegFile(<<>>)]
    ELSE f

\* The file system after one write call on the output file: a file inside a
\* tree grows by the bytes written, taken as one byte 0 per call.
Appended(f) ==
    IF env.output_file \in DOMAIN f
    THEN [f EXCEPT ![env.output_file].content = Append(@, 0)]
    ELSE f

\* File::create(args.output_file), wrapped in Arc<Mutex<_>>; panics on Err.
CreateOutput ==
    /\ pcMain = "create"
    /\ IF CreateFails
       THEN /\ pcMain' = "aborted"
            /\ UNCHANGED <<fs, output>>
       ELSE /\ pcMain' = "count"
            /\ output' = Truncated(output)
            /\ fs' = Created(fs)
    /\ UNCHANGED <<env, files_count, pcWalk, iter, workerVars, mutex, poisoned, pbar, handles,
                   barVars, delivered, hashed>>

\* for _ in WalkDir::new(&args.source_dir) { files_count += 1 }: counts every
\* item, Ok or Err.
CountFiles ==
    /\ pcMain = "count"
    /\ files_count' = Len(WalkResults(fs, source_dir))
    /\ pcMain' = "spawn"
    /\ UNCHANGED <<env, fs, pcWalk, iter, workerVars, mutex, poisoned, output, pbar, handles,
                   barVars, delivered, hashed>>

\* thread::spawn of walk_thread, which starts the comparison walk.
SpawnWalk ==
    /\ pcMain = "spawn"
    /\ pcMain' = "mbar_join"
    /\ pcWalk' = "for_each"
    /\ iter' = WalkResults(fs, source_dir)
    /\ UNCHANGED <<env, fs, files_count, workerVars, mutex, poisoned, output, pbar, handles,
                   barVars, delivered, hashed>>

\* mbar.join(): returns once every bar has finished or been dropped, which
\* the end of walk_thread brings about, by return or by unwinding.
MbarJoinReady == pcWalk \in {"done", "panicked"}

MbarJoin ==
    /\ pcMain = "mbar_join"
    /\ MbarJoinReady
    /\ pcMain' = "walk_join"
    /\ UNCHANGED <<env, fs, files_count, pcWalk, iter, workerVars, mutex, poisoned, output, pbar,
                   handles, barVars, delivered, hashed>>

\* walk_thread.join().expect(..): returns once walk_thread has ended, and
\* panics when it ended by a panic.
WalkJoinReady == pcWalk \in {"done", "panicked"}

WalkJoin ==
    /\ pcMain = "walk_join"
    /\ WalkJoinReady
    /\ pcMain' = IF pcWalk = "panicked" THEN "aborted" ELSE "returned"
    /\ UNCHANGED <<env, fs, files_count, pcWalk, iter, workerVars, mutex, poisoned, output, pbar,
                   handles, barVars, delivered, hashed>>

\* The process has ended: deep_check returned, or a panic of the main thread
\* ended it (exit 101) and its other threads with it.
ProcessEnded == pcMain \in {"returned", "aborted"}

\* The program is started again on the same arguments, after a run that
\* completed or one that aborted: a new process, the file system and the
\* output file as the last run left them.
Rerun ==
    /\ ProcessEnded
    /\ pcMain' = "create"
    /\ files_count' = 0
    /\ pcWalk' = "unstarted"
    /\ iter' = <<>>
    /\ pc' = [w \in Workers |-> "idle"]
    /\ src_path' = [w \in Workers |-> <<>>]
    /\ src_r' = [w \in Workers |-> NoHandle]
    /\ tgt_r' = [w \in Workers |-> NoHandle]
    /\ pending' = [w \in Workers |-> NoRecord]
    /\ parts' = [w \in Workers |-> 0]
    /\ mutex' = 0
    /\ poisoned' = FALSE
    /\ pbar' = 0
    /\ handles' = {}
    /\ bar_count' = 0
    /\ bar_id' = [w \in Workers |-> -1]
    /\ delivered' = [p \in WalkedPaths |-> 0]
    /\ hashed' = {}
    /\ UNCHANGED <<env, fs, output>>

\* ---------------------------------------------------------------- walk thread

\* for_each over par_bridge ends once every pool worker has either seen the
\* iterator exhausted, all its closure calls returned, or panicked.
ForEachReady_NoWait == iter = <<>>

ForEachReady ==
    \A w \in Workers : pc[w] = "panicked" \/ (pc[w] = "idle" /\ iter = <<>>)

\* A panic of a closure call is resumed in walk_thread when for_each ends.
ForEachDone ==
    /\ pcWalk = "for_each"
    /\ ForEachReady
    /\ pcWalk' = IF \E w \in Workers : pc[w] = "panicked" THEN "panicked" ELSE "finish_bars"
    /\ UNCHANGED <<env, fs, pcMain, files_count, iter, workerVars, mutex, poisoned, output, pbar,
                   handles, barVars, delivered, hashed>>

\* bars.iter().for_each(|b| b.finish()), then the closure ends.
FinishBars ==
    /\ pcWalk = "finish_bars"
    /\ pcWalk' = "done"
    /\ UNCHANGED <<env, fs, pcMain, files_count, iter, workerVars, mutex, poisoned, output, pbar,
                   handles, barVars, delivered, hashed>>

\* ---------------------------------------------------------------- pool workers

\* par_bridge: a worker takes the next entry of the shared iterator, which
\* advances past it.
NextEntry_Last(it) == it[Len(it)]

NextEntry(it) == Head(it)
RestEntries(it) == Tail(it)

\* The closure is called with the next item; src_entry.unwrap() panics on Err.
Take(w) ==
    /\ pcWalk = "for_each"
    /\ pc[w] = "idle"
    /\ iter # <<>>
    /\ iter' = RestEntries(iter)
    /\ IF NextEntry(iter).ok
       THEN /\ src_path' = [src_path EXCEPT ![w] = NextEntry(iter).path]
            /\ delivered' = [delivered EXCEPT ![NextEntry(iter).path] = @ + 1]
            /\ pc' = [pc EXCEPT ![w] = "open"]
       ELSE /\ pc' = [pc EXCEPT ![w] = "panicked"]
            /\ UNCHANGED <<src_path, delivered>>
    /\ UNCHANGED <<env, fs, pcMain, files_count, pcWalk, src_r, tgt_r, pending, parts, mutex,
                   poisoned, output, pbar, handles, barVars, hashed>>

\* The File values the process holds after File::open(path) returned r to
\* worker w.
Opened(h, w, path, r) == IF r.ok THEN h \cup {<<w, path>>} ELSE h

\* The File values left once the closure call of worker w has ended: src_r and
\* tgt_r are dropped with the matched tuple.
Dropped_Leak(h, w) == h

Dropped(h, w) == {x \in h : x[1] # w}

\* LOCAL_BAR_ID.with: the identity worker w uses, drawn from BAR_COUNT the
\* first time the thread asks for it.
BarIdOf(w) == IF bar_id[w] = -1 THEN bar_count ELSE bar_id[w]

\* bars = (0..=num_cpus::get()).map(..).collect()
BarsLen == env.cpus + 1

\* Columns the spinner message leaves free: s.0.0 - 5.
FrameColumns == 5

\* s.0.0 - 5 on a u16 overflows on a terminal narrower than that; the build
\* decides whether the overflow panics or wraps.
SubOverflows == env.columns # 0 /\ env.columns < FrameColumns

\* Whether the (Ok, Ok) arm panics before it calls cmp_files: bars[x] out of
\* range, or the overflow of the terminal width in a build that checks it.
ArmPanics(w) == BarIdOf(w) >= BarsLen \/ (SubOverflows /\ env.overflow_checks)

\* let src_r = File::open(&src_path): does not return on a FIFO without writer.
OpenSrc(w) ==
    /\ pc[w] = "open"
    /\ LET s == FileOpen(fs, src_path[w])
       IN /\ ~Blocks(s)
          /\ src_r' = [src_r EXCEPT ![w] = s]
          /\ handles' = Opened(handles, w, src_path[w], s)
    /\ pc' = [pc EXCEPT ![w] = "open_tgt"]
    /\ UNCHANGED <<env, fs, pcMain, files_count, pcWalk, iter, src_path, tgt_r, pending,
                   parts, mutex, poisoned, output, pbar, barVars, delivered, hashed>>

\* let tgt_r = File::open(&tgt_path), src_r held meanwhile, and the match on
\* the two results: both open goes on to cmp_files after the spinner lookup
\* bars[x] and the terminal width, either of which may panic; any failure
\* goes on to write its record.
OpenTgt(w) ==
    /\ pc[w] = "open_tgt"
    /\ LET sp == src_path[w]
           tp == tgt_path_of(sp)
           s == src_r[w]
           t == FileOpen(fs, tp)
       IN /\ ~Blocks(t)
          /\ IF s.ok /\ t.ok
             THEN /\ bar_id' = [bar_id EXCEPT ![w] = BarIdOf(w)]
                  /\ bar_count' = IF bar_id[w] = -1 THEN bar_count + 1 ELSE bar_count
                  /\ IF ArmPanics(w)
                     THEN /\ pc' = [pc EXCEPT ![w] = "panicked"]
                          /\ src_r' = [src_r EXCEPT ![w] = NoHandle]
                          /\ tgt_r' = [tgt_r EXCEPT ![w] = NoHandle]
                          /\ handles' = Dropped(handles, w)
                     ELSE /\ pc' = [pc EXCEPT ![w] = "cmp"]
                          /\ tgt_r' = [tgt_r EXCEPT ![w] = t]
                          /\ handles' = Opened(handles, w, tp, t)
                          /\ UNCHANGED src_r
                  /\ UNCHANGED pending
             ELSE /\ pc' = [pc EXCEPT ![w] = "lock"]
                  /\ tgt_r' = [tgt_r EXCEPT ![w] = t]
                  /\ handles' = Opened(handles, w, tp, t)
                  /\ pending' = [pending EXCEPT ![w] = OpenFailure(sp, s, tp, t)]
                  /\ UNCHANGED <<src_r, barVars>>
    /\ UNCHANGED <<env, fs, pcMain, files_count, pcWalk, iter, src_path, parts, mutex,
                   poisoned, output, pbar, delivered, hashed>>

\* cmp_files up to the point where it returns or asks for the lock.  A read
\* error makes io::copy(..).unwrap() panic; unwinding drops the two files.
Cmp(w) ==
    /\ pc[w] = "cmp"
    /\ IF Digests(src_r[w], tgt_r[w]) /\ (ReadFails(src_r[w]) \/ ReadFails(tgt_r[w]))
       THEN /\ pc' = [pc EXCEPT ![w] = "panicked"]
            /\ src_r' = [src_r EXCEPT ![w] = NoHandle]
            /\ tgt_r' = [tgt_r EXCEPT ![w] = NoHandle]
            /\ handles' = Dropped(handles, w)
            /\ UNCHANGED <<pending, hashed>>
       ELSE LET sp == src_path[w]
                tp == tgt_path_of(sp)
                r == cmp_files(sp, src_r[w], tp, tgt_r[w])
            IN /\ pending' = [pending EXCEPT ![w] = r]
               /\ pc' = [pc EXCEPT ![w] = IF r = NoRecord THEN "finish" ELSE "lock"]
               /\ hashed' = IF Digests(src_r[w], tgt_r[w]) THEN hashed \cup {sp} ELSE hashed
               /\ UNCHANGED <<src_r, tgt_r, handles>>
    /\ UNCHANGED <<env, fs, pcMain, files_count, pcWalk, iter, src_path, parts, mutex,
                   poisoned, output, pbar, barVars, delivered>>

\* output_file.lock(): blocks until the mutex is free.
LockFree_Always == TRUE

LockFree == mutex = 0

\* output_file.lock().unwrap(): takes the lock, and panics when the mutex is
\* poisoned, which gives the lock back.
Lock(w) ==
    /\ pc[w] = "lock"
    /\ LockFree
    /\ IF poisoned
       THEN /\ pc' = [pc EXCEPT ![w] = "panicked"]
            /\ src_r' = [src_r EXCEPT ![w] = NoHandle]
            /\ tgt_r' = [tgt_r EXCEPT ![w] = NoHandle]
            /\ handles' = Dropped(handles, w)
            /\ UNCHANGED <<mutex, parts>>
       ELSE /\ mutex' = w
            /\ parts' = [parts EXCEPT ![w] = 0]
            /\ pc' = [pc EXCEPT ![w] = "write"]
            /\ UNCHANGED <<src_r, tgt_r, handles>>
    /\ UNCHANGED <<env, fs, pcMain, files_count, pcWalk, iter, src_path, pending, poisoned,
                   output, pbar, barVars, delivered, hashed>>

\* write_all(..).unwrap(): one write call appends the next part of the record;
\* a write error panics with the guard held, which poisons the mutex and
\* frees it.
Write(w) ==
    /\ pc[w] = "write"
    /\ parts[w] < WriteParts
    /\ IF env.write_fails
       THEN /\ pc' = [pc EXCEPT ![w] = "panicked"]
            /\ mutex' = 0
            /\ poisoned' = TRUE
            /\ src_r' = [src_r EXCEPT ![w] = NoHandle]
            /\ tgt_r' = [tgt_r EXCEPT ![w] = NoHandle]
            /\ handles' = Dropped(handles, w)
            /\ UNCHANGED <<fs, output, parts>>
       ELSE /\ output' = Append(output, [rec |-> pending[w], part |-> parts[w] + 1])
            /\ fs' = Appended(fs)
            /\ parts' = [parts EXCEPT ![w] = @ + 1]
            /\ UNCHANGED <<pc, mutex, poisoned, src_r, tgt_r, handles>>
    /\ UNCHANGED <<env, pcMain, files_count, pcWalk, iter, src_path, pending, delivered,
                   hashed, pbar, barVars>>

\* write_all has returned: the guard is dropped at the end of the statement.
WriteDone(w) == parts[w] = WriteParts

\* The statement that took the lock ends without dropping the guard.
Unlock_KeepsLock(w) ==
    /\ pc[w] = "write"
    /\ WriteDone(w)
    /\ pc' = [pc EXCEPT ![w] = "finish"]
    /\ UNCHANGED <<env, fs, pcMain, files_count, pcWalk, iter, src_path, src_r, tgt_r,
                   pending, parts, mutex, poisoned, output, pbar, handles, barVars,
                   delivered, hashed>>

Unlock(w) ==
    /\ pc[w] = "write"
    /\ WriteDone(w)
    /\ mutex' = 0
    /\ pc' = [pc EXCEPT ![w] = "finish"]
    /\ UNCHANGED <<env, fs, pcMain, files_count, pcWalk, iter, src_path, src_r, tgt_r,
                   pending, parts, poisoned, output, pbar, handles, barVars, delivered,
                   hashed>>

\* End of the closure call: pbar.inc(1) in the arm that called cmp_files, then
\* the two File values are dropped.
Finish(w) ==
    /\ pc[w] = "finish"
    /\ pbar' = IF src_r[w].ok /\ tgt_r[w].ok THEN pbar + 1 ELSE pbar
    /\ handles' = Dropped(handles, w)
    /\ src_r' = [src_r EXCEPT ![w] = NoHandle]
    /\ tgt_r' = [tgt_r EXCEPT ![w] = NoHandle]
    /\ src_path' = [src_path EXCEPT ![w] = <<>>]
    /\ pending' = [pending EXCEPT ![w] = NoRecord]
    /\ parts' = [parts EXCEPT ![w] = 0]
    /\ pc' = [pc EXCEPT ![w] = "idle"]
    /\ UNCHANGED <<env, fs, pcMain, files_count, pcWalk, iter, mutex, poisoned, output, barVars,
                   delivered, hashed>>

\* ---------------------------------------------------------------- specification

Next ==
    \/ CreateOutput
    \/ CountFiles
    \/ SpawnWalk
    \/ MbarJoin
    \/ WalkJoin
    \/ Rerun
    \/ ForEachDone
    \/ FinishBars
    \/ \E w \in Workers : Take(w)
    \/ \E w \in Workers : OpenSrc(w)
    \/ \E w \in Workers : OpenTgt(w)
    \/ \E w \in Workers : Cmp(w)
    \/ \E w \in Workers : Lock(w)
    \/ \E w \in Workers : Write(w)
    \/ \E w \in Workers : Unlock(w)
    \/ \E w \in Workers : Finish(w)

\* Runs in a benign environment: default pool, no I/O fault, the output file
\* outside both trees.
Spec == Init /\ [][Next]_vars

\* Runs that differ in the size of the pool (RAYON_NUM_THREADS), from one
\* thread to the default.
PoolEnvs == {[BenignEnv EXCEPT !.pool = n] : n \in 1..NumWorkers}

InitPool ==
    /\ env \in InOrder(PoolEnvs)
    /\ fs \in FileSystems
    /\ InitRun

SpecPool == InitPool /\ [][Next]_vars

\* File systems without symbolic links.
PlainFileSystems ==
    {f \in FileSystems : \A p \in DOMAIN f : f[p].kind # "symlink"}

\* Names of the entries an I/O fault may strike.
FaultNames == {"a"}

\* Environments with one I/O fault: the output file cannot be created, or it
\* cannot be written, or a regular file of either tree fails when read, or a
\* directory of the source tree can be neither listed nor opened, or its
\* listing fails part-way.
FaultEnvs(f) ==
    {[BenignEnv EXCEPT !.create_fails = TRUE], [BenignEnv EXCEPT !.write_fails = TRUE]}
    \cup {[BenignEnv EXCEPT !.read_fails = {root \o <<n>>}] :
              <<root, n>> \in {x \in {source_dir, target_dir} \X FaultNames :
                                  f[x[1] \o <<x[2]>>].kind = "file"}}
    \cup {[BenignEnv EXCEPT !.denied = {source_dir \o <<n>>}] :
              n \in {m \in FaultNames : f[source_dir \o <<m>>].kind = "dir"}}
    \cup {[BenignEnv EXCEPT !.list_fails = {source_dir \o <<n>>}] :
              n \in {m \in FaultNames : f[source_dir \o <<m>>].kind = "dir"}}

InitFaults ==
    /\ fs \in PlainFileSystems
    /\ env \in InOrder(FaultEnvs(fs))
    /\ InitRun

\* Runs struck by one I/O fault.
SpecFaults == InitFaults /\ [][Next]_vars

\* args.output_file naming an entry of the source tree.
InsidePath == source_dir \o <<Names[1]>>

\* CPUs of a machine with a single one.
OneCpu == 1

\* Columns of a terminal too narrow for the spinner message.
NarrowColumns == 4

\* Plain file systems whose two trees are equal and hold every listed name.
FullEqualFileSystems ==
    {f \in PlainFileSystems :
        \A i \in 1..Len(Names) :
            /\ f[source_dir \o <<Names[i]>>] = f[target_dir \o <<Names[i]>>]
            /\ f[source_dir \o <<Names[i]>>].kind # "absent"}

\* File systems with a hidden entry under one root or both, the listed
\* entries equal on the two sides.
HiddenEntries == {Absent, Dir} \cup {RegFile(c) : c \in Contents}

HiddenFileSystems ==
    {[f EXCEPT ![source_dir \o <<HiddenNames[1]>>] = x,
               ![target_dir \o <<HiddenNames[1]>>] = y] :
        f \in FullEqualFileSystems, x \in HiddenEntries, y \in HiddenEntries}

\* Runs on inputs the program accepts like any other: the output file inside
\* the source tree; a named pipe in either tree; a pool (RAYON_NUM_THREADS) of
\* more threads than the machine has CPUs; a terminal narrower than the
\* spinner frame, in a debug or a release build; hidden entries in the trees.
InitHazards ==
    /\ \/ /\ env \in InOrder({[BenignEnv EXCEPT !.output_file = InsidePath]})
          /\ fs \in PlainFileSystems
       \/ /\ env \in InOrder({BenignEnv})
          /\ fs \in {[f EXCEPT ![root \o <<n>>] = Fifo] :
                       f \in PlainFileSystems, root \in {source_dir, target_dir},
                       n \in FaultNames}
       \/ /\ env \in InOrder({[BenignEnv EXCEPT !.pool = NumWorkers + 1, !.cpus = OneCpu]})
          /\ fs \in FullEqualFileSystems
       \/ /\ env \in InOrder({[BenignEnv EXCEPT !.columns = NarrowColumns,
                                                  !.overflow_checks = b] : b \in BOOLEAN})
          /\ fs \in FullEqualFileSystems
       \/ /\ env \in InOrder({BenignEnv})
          /\ fs \in HiddenFileSystems
    /\ InitRun

SpecHazards == InitHazards /\ [][Next]_vars

\* ---------------------------------------------------------------- reading the output

\* deep_check has returned.
Completed == pcMain = "returned"

\* The entry a name has under each root, links not followed (lstat).
SrcEntry(n) == fs[source_dir \o <<n>>]
TgtEntry(n) == fs[target_dir \o <<n>>]

\* Records whose last part is in the output, for the source path sp.
RecordsFor(sp) ==
    {i \in DOMAIN output : output[i].part = WriteParts /\ output[i].rec.src = sp}

RecordsOf(sp, cat) == {i \in RecordsFor(sp) : output[i].rec.cat = cat}

\* Any part of any record naming sp.
PartsFor(sp) == {i \in DOMAIN output : output[i].rec.src = sp}

\* What the closure decides for a walked path on this file system.
Outcome(sp) ==
    LET tp == tgt_path_of(sp)
        s == FileOpen(fs, sp)
        t == FileOpen(fs, tp)
    IN IF s.ok /\ t.ok THEN cmp_files(sp, s, tp, t) ELSE OpenFailure(sp, s, tp, t)

SeqToSet(q) == {q[i] : i \in DOMAIN q}

\* ---------------------------------------------------------------- claims

\* C1: for identical source and target trees (same names, same entry types,
\* same file bytes, same link texts) a completed run leaves the output file
\* without any diagnostic record.
IdenticalTrees == \A n \in NameSet : SrcEntry(n) = TgtEntry(n)

C1_IdenticalTreesNoRecords == (Completed /\ IdenticalTrees) => output = <<>>

\* C2: for a path that is a regular file on both sides, a completed run holds
\* exactly one record for it when the bytes differ, a sha256 mismatch record
\* carrying the digests of both files, which are unequal; and no record for it
\* when the bytes are equal.
BothRegular(n) == SrcEntry(n).kind = "file" /\ TgtEntry(n).kind = "file"

C2_ContentMismatch ==
    Completed =>
        \A n \in NameSet :
            BothRegular(n) =>
                LET sp == source_dir \o <<n>>
                IN IF SrcEntry(n).content # TgtEntry(n).content
                   THEN /\ Cardinality(RecordsFor(sp)) = 1
                        /\ \A i \in RecordsFor(sp) :
                              /\ output[i].rec.cat = "Found mismatched sha256 hashes"
                              /\ output[i].rec.src_hash = Sha256(SrcEntry(n).content)
                              /\ output[i].rec.tgt_hash = Sha256(TgtEntry(n).content)
                              /\ output[i].rec.src_hash # output[i].rec.tgt_hash
                   ELSE PartsFor(sp) = {}

\* C3: for a path that exists under the source root and not under the target
\* root, a completed run holds exactly one "Found missing file in target"
\* record for it and no other record for it.
OnlyInSource(n) == SrcEntry(n).kind # "absent" /\ TgtEntry(n).kind = "absent"

C3_MissingInTarget ==
    Completed =>
        \A n \in NameSet :
            OnlyInSource(n) =>
                LET sp == source_dir \o <<n>>
                IN /\ Cardinality(RecordsOf(sp, "Found missing file in target")) = 1
                   /\ Cardinality(RecordsFor(sp)) = 1

\* C4: for a path that exists under the target root and not under the source
\* root, a completed run holds exactly one "Found missing file in source"
\* record for it.
OnlyInTarget(n) == SrcEntry(n).kind = "absent" /\ TgtEntry(n).kind # "absent"

C4_MissingInSource ==
    Completed =>
        \A n \in NameSet :
            OnlyInTarget(n) =>
                Cardinality(RecordsOf(source_dir \o <<n>>, "Found missing file in source")) = 1

\* C5: for a path that is a directory on one side and a regular file on the
\* other, in either direction, a completed run holds exactly one "Found
\* mismatched file types" record for it, and no digest was computed for it.
DirVersusFile(n) ==
    \/ SrcEntry(n).kind = "dir" /\ TgtEntry(n).kind = "file"
    \/ SrcEntry(n).kind = "file" /\ TgtEntry(n).kind = "dir"

C5_TypeMismatch ==
    /\ \A n \in NameSet : DirVersusFile(n) => (source_dir \o <<n>>) \notin hashed
    /\ Completed =>
          \A n \in NameSet :
              DirVersusFile(n) =>
                  LET sp == source_dir \o <<n>>
                  IN /\ Cardinality(RecordsOf(sp, "Found mismatched file types")) = 1
                     /\ Cardinality(RecordsFor(sp)) = 1

\* C6: for a path that is a symlink on both sides the link is not followed and
\* its target not compared: whatever the two links point at, no record is
\* written for that path.
BothSymlinks(n) == SrcEntry(n).kind = "symlink" /\ TgtEntry(n).kind = "symlink"

C6_SymlinksNotFollowed ==
    \A n \in NameSet : BothSymlinks(n) => PartsFor(source_dir \o <<n>>) = {}

\* C7: deep_check does not return while the comparison walk still has an
\* entry to hand out or a comparison is unfinished: at the return every walked
\* path has been handed out and has either its record in the output, whole,
\* or is a silent match.
WalkedSet == SeqToSet(WalkDir(fs, source_dir))

C7_ReturnAfterAllProcessed ==
    Completed =>
        /\ iter = <<>>
        /\ pcWalk = "done"
        /\ mutex = 0
        /\ \A w \in Workers : pc[w] = "idle" /\ pending[w] = NoRecord
        /\ \A p \in WalkedSet :
              /\ delivered[p] >= 1
              /\ \/ Outcome(p) = NoRecord
                 \/ \E i \in RecordsFor(p) : output[i].rec = Outcome(p)

C7_Witness ==
    /\ Completed
    /\ Len(WalkDir(fs, source_dir)) = Len(Names) + 1
    /\ Len(output) >= 2 * WriteParts

\* C8: at most one worker appends to the output file at a time, and it holds
\* the lock; the output is a sequence of whole records, each one contiguous
\* with its parts in order, followed at most by the parts the lock holder has
\* written so far; a record whose write has returned is in the output whole.
C8_RecordsContiguous ==
    /\ Cardinality({w \in Workers : pc[w] = "write"}) <= 1
    /\ \A w \in Workers : pc[w] = "write" => mutex = w
    /\ \A i \in DOMAIN output :
          /\ output[i].part = ((i - 1) % WriteParts) + 1
          /\ output[i].rec = output[i - (output[i].part - 1)].rec
    /\ \A w \in Workers :
          pc[w] = "write" =>
              /\ parts[w] <= Len(output)
              /\ \A k \in 1..parts[w] :
                    output[Len(output) - parts[w] + k] = [rec |-> pending[w], part |-> k]
    /\ (\A w \in Workers : pc[w] # "write") => Len(output) % WriteParts = 0
    /\ \A w \in Workers :
          (pc[w] = "finish" /\ pending[w] # NoRecord) =>
              \E i \in DOMAIN output : output[i] = [rec |-> pending[w], part |-> WriteParts]

\* A worker is in the middle of a record while another waits for the lock
\* with a record of its own.
C8_Witness ==
    \E w1, w2 \in Workers :
        /\ pc[w1] = "write" /\ parts[w1] >= 1 /\ parts[w1] < WriteParts
        /\ pc[w2] = "lock" /\ pending[w2] # NoRecord /\ pending[w2] # pending[w1]

\* C9: every path the comparison walk yields is handed to exactly one worker
\* exactly once: no path is handed out twice, no two workers hold the same
\* path, while the walk runs every walked path is either still in the iterator
\* or was handed out, and at the return each walked path was handed out once.
C9_DeliveredExactlyOnce ==
    /\ \A p \in WalkedPaths : delivered[p] <= 1
    /\ \A w1, w2 \in Workers :
          (w1 # w2 /\ src_path[w1] # <<>>) => src_path[w1] # src_path[w2]
    /\ \A w \in Workers : pc[w] # "idle" => delivered[src_path[w]] = 1
    /\ pcWalk # "unstarted" =>
          \A p \in WalkedSet : (OkEntry(p) \in SeqToSet(iter)) # (delivered[p] = 1)
    /\ Completed =>
          \A p \in WalkedPaths : delivered[p] = (IF p \in WalkedSet THEN 1 ELSE 0)

C9_Witness ==
    /\ \A w \in Workers : pc[w] # "idle"
    /\ iter # <<>>
    /\ \E p \in WalkedPaths : delivered[p] = 0

\* C10: the comparisons in flight never outnumber the pool, and the open file
\* handles never outnumber two per pool worker: every open handle belongs to
\* the entry its worker holds now, and a worker that has not yet opened the
\* files of its entry holds no handle of an earlier entry.
InFlight ==
    {sp \in WalkedPaths :
        \E w \in Workers : <<w, sp>> \in handles \/ <<w, tgt_path_of(sp)>> \in handles}

C10_BoundedInFlight ==
    /\ Cardinality(InFlight) <= env.pool
    /\ Cardinality(handles) <= 2 * env.pool
    /\ \A x \in handles : x[2] \in {src_path[x[1]], tgt_path_of(src_path[x[1]])}
    /\ \A w \in Workers :
          /\ pc[w] \in {"idle", "open"} => \A x \in handles : x[1] # w
          /\ pc[w] = "open_tgt" => \A x \in handles : x[1] = w => x[2] = src_path[w]

C10_Witness ==
    /\ Cardinality(handles) = 2 * env.pool
    /\ Cardinality(InFlight) = env.pool
    /\ iter # <<>>

\* C11: the records of a completed run are a function of the two trees only:
\* whatever the pool size and the interleaving of the workers, and however
\* many runs went before over the same trees, the output holds exactly the
\* records the walked paths call for on this file system, each of them once.
ExpectedRecords == {Outcome(p) : p \in WalkedSet} \ {NoRecord}

RecordSet == {output[i].rec : i \in DOMAIN output}

C11_RecordsFunctionOfTrees ==
    Completed =>
        /\ RecordSet = ExpectedRecords
        /\ Len(output) = WriteParts * Cardinality(ExpectedRecords)

\* A run on a single thread has left two records and the program is about to
\* be run again over them.
C11_Witness ==
    /\ pcMain = "create"
    /\ env.pool = 1
    /\ Cardinality(ExpectedRecords) = Len(Names)
    /\ RecordSet = ExpectedRecords

\* C12: a failure to open one side or both sides of a pair is recovered
\* locally: no thread panics and the run is not aborted; at the return the
\* path has exactly one record, which names the failing side or sides and
\* carries the reason of each failed open; and every other walked path was
\* handed out once and has the record its comparison calls for, or none when
\* it is a silent match.
C12_OpenFailureRecovered ==
    /\ pcMain # "aborted"
    /\ pcWalk # "panicked"
    /\ \A w \in Workers : pc[w] # "panicked"
    /\ Completed =>
          \A p \in WalkedSet :
              LET tp == tgt_path_of(p)
                  s == FileOpen(fs, p)
                  t == FileOpen(fs, tp)
              IN /\ delivered[p] = 1
                 /\ (~s.ok \/ ~t.ok) =>
                       /\ Cardinality(RecordsFor(p)) = 1
                       /\ \A i \in RecordsFor(p) :
                             /\ output[i].rec.cat =
                                   (IF s.ok THEN "Found missing file in target"
                                    ELSE IF t.ok THEN "Found missing file in source"
                                    ELSE "Found missing file in source and target")
                             /\ output[i].rec.tgt = tp
                             /\ output[i].rec.src_reason = (IF s.ok THEN "" ELSE s.err)
                             /\ output[i].rec.tgt_reason = (IF t.ok THEN "" ELSE t.err)
                 /\ (s.ok /\ t.ok) =>
                       IF cmp_files(p, s, tp, t) = NoRecord
                       THEN PartsFor(p) = {}
                       ELSE /\ Cardinality(RecordsFor(p)) = 1
                            /\ \A i \in RecordsFor(p) : output[i].rec = cmp_files(p, s, tp, t)

\* A completed run over a path whose source side cannot be opened and another
\* path whose target side alone cannot, each with its record.
C12_Witness ==
    /\ Completed
    /\ \E p \in WalkedSet : ~FileOpen(fs, p).ok /\ Cardinality(RecordsFor(p)) = 1
    /\ \E p \in WalkedSet :
          /\ FileOpen(fs, p).ok /\ ~FileOpen(fs, tgt_path_of(p)).ok
          /\ Cardinality(RecordsFor(p)) = 1

\* C13: a read that fails after the file was opened is fatal to that
\* comparison only: no thread panics over it and the run is not aborted.
C13_ReadFailureNotFatal ==
    env.read_fails # {} =>
        /\ pcMain # "aborted"
        /\ pcWalk # "panicked"
        /\ \A w \in Workers : pc[w] # "panicked"

\* C14: a subdirectory of the source tree that the walk cannot list, because
\* it cannot be opened or because its listing fails part-way, does not abort
\* the walk: no thread panics, and at the return every walked path was handed
\* out once and has the record its comparison calls for, or none; a directory
\* that cannot be opened has one record, carrying the permission error.
C14_UnlistableDirConfined ==
    (env.denied # {} \/ env.list_fails # {}) =>
        /\ pcMain # "aborted"
        /\ pcWalk # "panicked"
        /\ \A w \in Workers : pc[w] # "panicked"
        /\ Completed =>
              \A p \in WalkedSet :
                  /\ delivered[p] = 1
                  /\ Cardinality(RecordsFor(p)) = (IF Outcome(p) = NoRecord THEN 0 ELSE 1)
                  /\ \A i \in RecordsFor(p) : output[i].rec = Outcome(p)
                  /\ p \in env.denied =>
                        /\ Cardinality(RecordsFor(p)) = 1
                        /\ \A i \in RecordsFor(p) :
                              output[i].rec.src_reason = "PermissionDenied"

\* C15: when the output file cannot be created the run aborts at once: the
\* main thread never gets past File::create, nothing is counted, the walk
\* thread is never started, no entry is handed out, no file of either tree is
\* opened and nothing is written.
C15_CreateFailureAborts ==
    env.create_fails =>
        /\ pcMain \in {"create", "aborted"}
        /\ files_count = 0
        /\ pcWalk = "unstarted"
        /\ iter = <<>>
        /\ \A p \in WalkedPaths : delivered[p] = 0
        /\ \A w \in Workers : pc[w] = "idle"
        /\ handles = {}
        /\ output = <<>>

\* The run has aborted on the failed File::create, over a source tree that
\* holds entries to walk.
C15_Witness ==
    /\ env.create_fails
    /\ pcMain = "aborted"
    /\ Len(WalkDir(fs, source_dir)) = Len(Names) + 1

\* C16: a run is read-only on both trees: no step changes an entry of the
\* source tree or of the target tree, wherever the output file lies.
C16_TreesUnchanged == [][fs' = fs]_vars

\* C17: no run gets stuck: in every reachable state either deep_check has
\* returned, or the process has aborted, or some thread can take a step.
C17_NoThreadWaitsForever == ProcessEnded \/ ENABLED Next

\* C18: a worker holds the lock of the output file only while it appends one
\* record: the holder is in its write_all, with a record to write; a worker
\* that is idle, opening its files, comparing them, waiting for the lock or
\* past its append does not hold it; and once the main thread has returned
\* the lock is free.
C18_LockOnlyForAppend ==
    /\ mutex \in Workers \cup {0}
    /\ \A w \in Workers :
          /\ mutex = w => (pc[w] = "write" /\ pending[w] # NoRecord /\ parts[w] <= WriteParts)
          /\ pc[w] \in {"idle", "open", "open_tgt", "cmp", "lock", "finish", "panicked"} =>
                mutex # w
    /\ Completed => mutex = 0

\* A worker is past its append, its record written, while another worker
\* holds the lock for a record of its own.
C18_Witness ==
    \E w1, w2 \in Workers :
        /\ pc[w1] = "finish" /\ pending[w1] # NoRecord
        /\ mutex = w2 /\ pending[w2] # pending[w1]

\* C19: one progress increment per completed comparison, whatever its outcome:
\* when the run has completed, the increments equal the entries counted for
\* the progress total.
C19_IncrementPerComparison == Completed => pbar = files_count

\* C20: every identity drawn from BAR_COUNT is drawn by one worker only, and
\* is an index into the spinner vector.
C20_BarIndexInRange ==
    /\ \A w \in Workers : bar_id[w] # -1 => bar_id[w] < BarsLen
    /\ \A w1, w2 \in Workers : (w1 # w2 /\ bar_id[w1] # -1) => bar_id[w1] # bar_id[w2]

====
